---- MODULE Spec2Model ----
(***************************************************************************)
(* A model of examples/train.py of BoltzmannGenerator: the start-up code   *)
(* of the script (configuration gate, output check, delete_run,            *)
(* create_dirs), run_training (set-up, shuffle-and-split, the epoch loop   *)
(* with its TrainStep and Validate&Log parts, and the finalizing code),    *)
(* and the layer list that build_network hands to CompositeTransform.      *)
(***************************************************************************)
EXTENDS Integers, Sequences, FiniteSets, TLC

(* ------------------------------ bounds --------------------------------- *)
MaxEpochs == 3
MaxLogFreq == 3
MaxFrames == 3
MaxBatch == 2
MaxCoupling == 2

(* ------------------------- values of the inputs ------------------------ *)
\* run names: "a" is the output name; "b" is another run's name
Names == {"a", "b"}
OutputNames == {"a"}
NoNetwork == "none"
\* fold_validation is a float; it is kept as the fraction <<numerator, denominator>>
FoldValues == {<<1, 2>>, <<1, 1>>, <<3, 2>>, <<2, 1>>, <<4, 1>>}
ExampleWeights == {1, 2}
EnergyWeights == {3}
\* values an unweighted loss can take
RawLosses == {-1, 2}

Kinds == {"model", "training_traj", "sample_traj", "runs"}
Paths == Kinds \X Names
Absent == "absent"
Old == "old"
New == "new"

VARIABLES
    args,          \* the parsed command line (argparse namespace)
    fs0,           \* the files and run directories that existed at start
    fs,            \* the files and run directories now
    dirs,          \* the top-level directories that exist
    calls,         \* the helpers and collaborators called so far
    pc,            \* position in the script
    failedAt,      \* where the run raised, "" if it has not
    epoch,         \* the loop variable of run_training
    mode,          \* net.train() / net.eval()
    grad,          \* state of the gradients
    params,        \* version of the transform parameters
    lr_epoch,      \* last epoch handed to scheduler.step
    rawExample,    \* unweighted example loss of this step, None if not computed
    rawEnergy,     \* unweighted energy loss of this step, None if not computed
    example_loss,
    energy_loss,
    loss,
    oracleTrain,   \* TRUE iff the energy oracle was called on training samples in this step
    ops,           \* the parts of the current TrainStep done so far, in order
    events,        \* TrainSteps, Validate&Logs and the model save, in order
    fixed_coords,  \* the diagnostic trajectory
    shuffled,      \* training_data_npy after np.random.shuffle
    val_data,
    train_data,
    usedTrain,     \* frames that entered a training loss
    usedVal,       \* frames that entered a validation loss
    layers,        \* children of the CompositeTransform under test
    fpc,           \* position of the transform round trip
    fin,           \* its input
    fmid,          \* the image of the input
    fout,          \* the image mapped back
    ld1,           \* log-determinant of the first map
    ld2            \* log-determinant of the second map

tvars == <<args, fs0, fs, dirs, calls, pc, failedAt, epoch, mode, grad, params,
           lr_epoch, rawExample, rawEnergy, example_loss, energy_loss, loss,
           oracleTrain, ops, events, fixed_coords, shuffled, val_data,
           train_data, usedTrain, usedVal>>
fvars == <<layers, fpc, fin, fmid, fout, ld1, ld2>>
vars == <<tvars, fvars>>

(* ------------------------------ helpers -------------------------------- *)
Range(s) == {s[i] : i \in 1..Len(s)}
Min(a, b) == IF a <= b THEN a ELSE b
Max(a, b) == IF a >= b THEN a ELSE b

\* s[:k] of Python for a list s
Take(s, k) ==
    IF k >= 0 THEN SubSeq(s, 1, Min(k, Len(s)))
    ELSE SubSeq(s, 1, Max(Len(s) + k, 0))

\* s[k:] of Python for a list s
Drop(s, k) ==
    IF k >= 0 THEN SubSeq(s, Min(k, Len(s)) + 1, Len(s))
    ELSE SubSeq(s, Max(Len(s) + k, 0) + 1, Len(s))

\* int(n / f) for a positive float f = f[1] / f[2]
NVal(n, f) == (n * f[2]) \div f[1]

\* np.random.shuffle: any order of the frames 1..n
Shuffles(n) == {p \in [1..n -> 1..n] : \A i, j \in 1..n : p[i] = p[j] => i = j}

DirOf(kind) ==
    CASE kind = "model" -> "models"
      [] kind = "training_traj" -> "training_traj"
      [] kind = "sample_traj" -> "sample_traj"
      [] kind = "runs" -> "runs"

Exists(f, kind, name) == f[<<kind, name>>] # Absent

\* a Python name that is not bound yet, and one bound to the value v
None == <<>>
Some(v) == <<v>>

(* ------------------------------ start-up ------------------------------- *)
\* the condition of line 573, negated: the configuration passes the gate
ObjectivesEnabledNoGate(a) == TRUE
ObjectivesEnabled(a) == a.train_example \/ a.train_energy

\* os.path.exists(model_path) and args.overwrite, lines 578-585: TRUE iff no error is raised
OutputAcceptedIgnoringFlag(f, a) == TRUE
OutputAccepted(f, a) == Exists(f, "model", a.output_name) => a.overwrite

\* delete_run(name): the file system after it
delete_run_all_models(f, name) ==
    [p \in Paths |-> IF p[2] = name \/ p[1] = "model" THEN Absent ELSE f[p]]
delete_run(f, name) ==
    [p \in Paths |-> IF p[2] = name THEN Absent ELSE f[p]]

\* create_dirs(): the directories after it
create_dirs(d) == d \cup {"models", "training_traj", "sample_traj"}

Fail(where) ==
    /\ pc' = "failed"
    /\ failedAt' = where

\* line 573: neither objective enabled raises RuntimeError
ConfigGate ==
    /\ pc = "parse"
    /\ IF ObjectivesEnabled(args)
         THEN pc' = "check_output" /\ failedAt' = failedAt
         ELSE pc' = "rejected" /\ failedAt' = "gate"
    /\ UNCHANGED <<args, fs0, fs, dirs, calls, epoch, mode, grad, params, lr_epoch,
                   rawExample, rawEnergy, example_loss, energy_loss, loss,
                   oracleTrain, ops, events, fixed_coords, shuffled, val_data,
                   train_data, usedTrain, usedVal, fvars>>

\* lines 578-585: an existing output model needs --overwrite
CheckOutput ==
    /\ pc = "check_output"
    /\ calls' = calls \cup {"exists"}
    /\ IF OutputAccepted(fs, args)
         THEN pc' = "delete_run" /\ failedAt' = failedAt
         ELSE pc' = "rejected" /\ failedAt' = "output_exists"
    /\ UNCHANGED <<args, fs0, fs, dirs, epoch, mode, grad, params, lr_epoch,
                   rawExample, rawEnergy, example_loss, energy_loss, loss,
                   oracleTrain, ops, events, fixed_coords, shuffled, val_data,
                   train_data, usedTrain, usedVal, fvars>>

\* line 588
DeleteRun ==
    /\ pc = "delete_run"
    /\ fs' = delete_run(fs, args.output_name)
    /\ calls' = calls \cup {"delete_run"}
    /\ pc' = "create_dirs"
    /\ UNCHANGED <<args, fs0, dirs, failedAt, epoch, mode, grad, params, lr_epoch,
                   rawExample, rawEnergy, example_loss, energy_loss, loss,
                   oracleTrain, ops, events, fixed_coords, shuffled, val_data,
                   train_data, usedTrain, usedVal, fvars>>

\* lines 590-591
CreateDirs ==
    /\ pc = "create_dirs"
    /\ dirs' = create_dirs(dirs)
    /\ calls' = calls \cup {"create_dirs"}
    /\ pc' = "writer"
    /\ UNCHANGED <<args, fs0, fs, failedAt, epoch, mode, grad, params, lr_epoch,
                   rawExample, rawEnergy, example_loss, energy_loss, loss,
                   oracleTrain, ops, events, fixed_coords, shuffled, val_data,
                   train_data, usedTrain, usedVal, fvars>>

(* --------------------------- run_training: set-up ---------------------- *)
\* lines 592, 208: run_training is entered and opens the metric writer on runs/<name>
CreateTensorboard ==
    /\ pc = "writer"
    /\ calls' = calls \cup {"run_training", "writer"}
    /\ fs' = [fs EXCEPT ![<<"runs", args.output_name>>] = New]
    /\ dirs' = dirs \cup {"runs"}
    /\ pc' = "load_traj"
    /\ UNCHANGED <<args, fs0, failedAt, epoch, mode, grad, params, lr_epoch,
                   rawExample, rawEnergy, example_loss, energy_loss, loss,
                   oracleTrain, ops, events, fixed_coords, shuffled, val_data,
                   train_data, usedTrain, usedVal, fvars>>

\* lines 210-215
LoadTrajectory ==
    /\ pc = "load_traj"
    /\ calls' = calls \cup {"load_trajectory"}
    /\ pc' = "network"
    /\ UNCHANGED <<args, fs0, fs, dirs, failedAt, epoch, mode, grad, params, lr_epoch,
                   rawExample, rawEnergy, example_loss, energy_loss, loss,
                   oracleTrain, ops, events, fixed_coords, shuffled, val_data,
                   train_data, usedTrain, usedVal, fvars>>

\* lines 217-231: the network is read from models/<load_network>.pkl or built
SetupNetwork ==
    /\ pc = "network"
    /\ IF args.load_network # NoNetwork
         THEN /\ calls' = calls \cup {"load_network"}
              /\ IF Exists(fs, "model", args.load_network)
                   THEN pc' = "setup" /\ failedAt' = failedAt
                   ELSE Fail("load_network")
         ELSE /\ calls' = calls \cup {"build_network"}
              /\ pc' = "setup"
              /\ failedAt' = failedAt
    /\ UNCHANGED <<args, fs0, fs, dirs, epoch, mode, grad, params, lr_epoch,
                   rawExample, rawEnergy, example_loss, energy_loss, loss,
                   oracleTrain, ops, events, fixed_coords, shuffled, val_data,
                   train_data, usedTrain, usedVal, fvars>>

\* lines 233-251: optimizer, scheduler, OpenMM context and energy evaluator
SetupOptimizer ==
    /\ pc = "setup"
    /\ calls' = calls \cup {"optimizer", "scheduler", "openmm_context"}
    /\ pc' = "split"
    /\ UNCHANGED <<args, fs0, fs, dirs, failedAt, epoch, mode, grad, params, lr_epoch,
                   rawExample, rawEnergy, example_loss, energy_loss, loss,
                   oracleTrain, ops, events, fixed_coords, shuffled, val_data,
                   train_data, usedTrain, usedVal, fvars>>

\* training_data_npy[:n_val] and training_data_npy[n_val:], lines 259-260
ValSplit(s, k) == Take(s, k)
TrainSplitOverlapping(s, k) == Drop(s, k - 1)
TrainSplit(s, k) == Drop(s, k)

\* lines 253-267: shuffle, split, and the empty diagnostic trajectory
ShuffleSplit ==
    /\ pc = "split"
    /\ \E p \in Shuffles(args.n) :
         /\ shuffled' = p
         /\ val_data' = ValSplit(p, NVal(args.n, args.fold_validation))
         /\ train_data' = TrainSplit(p, NVal(args.n, args.fold_validation))
    /\ fixed_coords' = <<>>
    /\ pc' = "loop"
    /\ UNCHANGED <<args, fs0, fs, dirs, calls, failedAt, epoch, mode, grad, params,
                   lr_epoch, rawExample, rawEnergy, example_loss, energy_loss, loss,
                   oracleTrain, ops, events, usedTrain, usedVal, fvars>>

(* ------------------------- run_training: the loop ---------------------- *)
LoopVarsUnchanged == UNCHANGED <<args, fs0, fs, dirs, calls, shuffled, val_data, train_data, fvars>>

\* np.random.choice(indices, batch_size, replace=True) over np.arange(len)
IndexBatches(len, batch_size) == [1..batch_size -> 0..(len - 1)]

\* data[index_batch, :]: the frames a batch of indices selects
Select(data, index_batch) == {data[index_batch[i] + 1] : i \in DOMAIN index_batch}

\* line 303
LogDueOffByOne(e, log_freq) == (e + 1) % log_freq = 0
LogDueEveryEpoch(e, log_freq) == TRUE
LogDue(e, log_freq) == e % log_freq = 0

\* lines 292-297
CombinedLossExampleFirst(a, ex, en) ==
    IF a.train_example THEN ex
    ELSE en
CombinedLoss(a, ex, en) ==
    IF a.train_example /\ a.train_energy THEN Some(ex[1] + en[1])
    ELSE IF a.train_example THEN ex
    ELSE en

\* lines 269-270: the next value of range(args.epochs), or the end of the loop
LoopHead ==
    /\ pc = "loop"
    /\ IF epoch + 1 < args.epochs
         THEN /\ epoch' = epoch + 1
              /\ pc' = "zero_grad"
         ELSE /\ epoch' = epoch
              /\ pc' = "save"
    /\ ops' = <<>>
    /\ rawExample' = None
    /\ rawEnergy' = None
    /\ oracleTrain' = FALSE
    /\ UNCHANGED <<failedAt, mode, grad, params, lr_epoch, example_loss, energy_loss,
                   loss, events, fixed_coords, usedTrain, usedVal>>
    /\ LoopVarsUnchanged

\* lines 271-272
ZeroGrad ==
    /\ pc = "zero_grad"
    /\ mode' = "train"
    /\ grad' = "zero"
    /\ ops' = Append(ops, "zero_grad")
    /\ pc' = "example"
    /\ UNCHANGED <<failedAt, epoch, params, lr_epoch, rawExample, rawEnergy,
                   example_loss, energy_loss, loss, oracleTrain, events,
                   fixed_coords, usedTrain, usedVal>>
    /\ LoopVarsUnchanged

\* lines 274-281
ExampleLoss ==
    /\ pc = "example"
    /\ IF args.train_example
         THEN IF Len(train_data) = 0
                THEN /\ Fail("example")   \* np.random.choice on an empty array
                     /\ UNCHANGED <<rawExample, example_loss, usedTrain>>
                ELSE \E index_batch \in IndexBatches(Len(train_data), args.batch_size),
                        raw \in RawLosses :
                       /\ usedTrain' = usedTrain \cup Select(train_data, index_batch)
                       /\ rawExample' = Some(raw)
                       /\ example_loss' = Some(args.example_weight * raw)
                       /\ pc' = "energy"
                       /\ failedAt' = failedAt
         ELSE /\ pc' = "energy"
              /\ UNCHANGED <<failedAt, rawExample, example_loss, usedTrain>>
    /\ UNCHANGED <<epoch, mode, grad, params, lr_epoch, rawEnergy, energy_loss, loss,
                   oracleTrain, ops, events, fixed_coords, usedVal>>
    /\ LoopVarsUnchanged

\* lines 283-290
EnergyLoss ==
    /\ pc = "energy"
    /\ IF args.train_energy
         THEN \E raw \in RawLosses :
                /\ oracleTrain' = TRUE
                /\ rawEnergy' = Some(raw)
                /\ energy_loss' = Some(args.energy_weight * raw)
         ELSE UNCHANGED <<oracleTrain, rawEnergy, energy_loss>>
    /\ pc' = "combine"
    /\ UNCHANGED <<failedAt, epoch, mode, grad, params, lr_epoch, rawExample,
                   example_loss, loss, ops, events, fixed_coords, usedTrain, usedVal>>
    /\ LoopVarsUnchanged

\* lines 292-297
Combine ==
    /\ pc = "combine"
    /\ IF ~args.train_example /\ energy_loss = None
         THEN /\ Fail("combine")   \* energy_loss is not bound
              /\ UNCHANGED <<loss, ops>>
         ELSE /\ loss' = CombinedLoss(args, example_loss, energy_loss)
              /\ ops' = Append(ops, "loss")
              /\ pc' = "backward"
              /\ failedAt' = failedAt
    /\ UNCHANGED <<epoch, mode, grad, params, lr_epoch, rawExample, rawEnergy,
                   example_loss, energy_loss, oracleTrain, events, fixed_coords,
                   usedTrain, usedVal>>
    /\ LoopVarsUnchanged

\* line 299
Backward ==
    /\ pc = "backward"
    /\ grad' = "computed"
    /\ ops' = Append(ops, "backward")
    /\ pc' = "opt_step"
    /\ UNCHANGED <<failedAt, epoch, mode, params, lr_epoch, rawExample, rawEnergy,
                   example_loss, energy_loss, loss, oracleTrain, events,
                   fixed_coords, usedTrain, usedVal>>
    /\ LoopVarsUnchanged

\* line 300
OptimizerStepWithoutScheduler ==
    /\ pc = "opt_step"
    /\ params' = params + 1
    /\ ops' = Append(ops, "optimizer_step")
    /\ events' = Append(events, <<"TrainStep", epoch>>)
    /\ pc' = "log_check"
    /\ UNCHANGED <<failedAt, epoch, mode, grad, lr_epoch, rawExample, rawEnergy,
                   example_loss, energy_loss, loss, oracleTrain,
                   fixed_coords, usedTrain, usedVal>>
    /\ LoopVarsUnchanged
OptimizerStep ==
    /\ pc = "opt_step"
    /\ params' = params + 1
    /\ ops' = Append(ops, "optimizer_step")
    /\ pc' = "sched_step"
    /\ UNCHANGED <<failedAt, epoch, mode, grad, lr_epoch, rawExample, rawEnergy,
                   example_loss, energy_loss, loss, oracleTrain, events,
                   fixed_coords, usedTrain, usedVal>>
    /\ LoopVarsUnchanged

\* line 301: the last statement of the TrainStep
SchedulerStep ==
    /\ pc = "sched_step"
    /\ lr_epoch' = epoch
    /\ ops' = Append(ops, "scheduler_step")
    /\ events' = Append(events, <<"TrainStep", epoch>>)
    /\ pc' = "log_check"
    /\ UNCHANGED <<failedAt, epoch, mode, grad, params, rawExample, rawEnergy,
                   example_loss, energy_loss, loss, oracleTrain, fixed_coords,
                   usedTrain, usedVal>>
    /\ LoopVarsUnchanged

\* line 303
LogCheck ==
    /\ pc = "log_check"
    /\ pc' = IF LogDue(epoch, args.log_freq) THEN "validate" ELSE "loop"
    /\ UNCHANGED <<failedAt, epoch, mode, grad, params, lr_epoch, rawExample,
                   rawEnergy, example_loss, energy_loss, loss, oracleTrain, ops,
                   events, fixed_coords, usedTrain, usedVal>>
    /\ LoopVarsUnchanged

\* lines 304-373: Validate&Log
ValidateAndLog ==
    /\ pc = "validate"
    /\ mode' = "eval"
    /\ IF Len(val_data) = 0
         THEN /\ Fail("validate")   \* np.random.choice on an empty array
              /\ UNCHANGED <<usedVal, fixed_coords, events>>
         ELSE \E index_val \in IndexBatches(Len(val_data), args.batch_size) :
                /\ usedVal' = usedVal \cup Select(val_data, index_val)
                /\ fixed_coords' = Append(fixed_coords, params)
                /\ events' = Append(events, <<"Validate", epoch>>)
                /\ pc' = "loop"
                /\ failedAt' = failedAt
    /\ UNCHANGED <<epoch, grad, params, lr_epoch, rawExample, rawEnergy,
                   example_loss, energy_loss, loss, oracleTrain, ops, usedTrain>>
    /\ LoopVarsUnchanged

\* a fatal error raised by forward/inverse evaluation, the energy oracle,
\* backpropagation or the optimizer step: the exception ends the script
FallibleTrain ==
    (IF args.train_example THEN {"example"} ELSE {})
      \cup (IF args.train_energy THEN {"energy"} ELSE {})
      \cup {"backward", "opt_step"}
FatalError ==
    /\ pc \in FallibleTrain \cup {"validate"}
    /\ Fail(pc)
    /\ UNCHANGED <<epoch, mode, grad, params, lr_epoch, rawExample, rawEnergy,
                   example_loss, energy_loss, loss, oracleTrain, ops, events,
                   fixed_coords, usedTrain, usedVal>>
    /\ LoopVarsUnchanged

(* ------------------------ run_training: finalizing --------------------- *)
\* line 376
SaveModel ==
    /\ pc = "save"
    /\ fs' = [fs EXCEPT ![<<"model", args.output_name>>] = New]
    /\ events' = Append(events, <<"Save", epoch>>)
    /\ pc' = "final_print"
    /\ UNCHANGED <<args, fs0, dirs, calls, failedAt, epoch, mode, grad, params,
                   lr_epoch, rawExample, rawEnergy, example_loss, energy_loss, loss,
                   oracleTrain, ops, fixed_coords, shuffled, val_data, train_data,
                   usedTrain, usedVal, fvars>>

\* lines 379-387: loss and loss_val are bound only if the loop body ran
FinalPrint ==
    /\ pc = "final_print"
    /\ IF loss = None
         THEN Fail("final_print")
         ELSE pc' = "save_traj" /\ failedAt' = failedAt
    /\ UNCHANGED <<args, fs0, fs, dirs, calls, epoch, mode, grad, params, lr_epoch,
                   rawExample, rawEnergy, example_loss, energy_loss, loss,
                   oracleTrain, ops, events, fixed_coords, shuffled, val_data,
                   train_data, usedTrain, usedVal, fvars>>

\* lines 389-404
SaveTrajectories ==
    /\ pc = "save_traj"
    /\ mode' = "eval"
    /\ fs' = [fs EXCEPT ![<<"training_traj", args.output_name>>] = New,
                        ![<<"sample_traj", args.output_name>>] = New]
    /\ pc' = "done"
    /\ UNCHANGED <<args, fs0, dirs, calls, failedAt, epoch, grad, params, lr_epoch,
                   rawExample, rawEnergy, example_loss, energy_loss, loss,
                   oracleTrain, ops, events, fixed_coords, shuffled, val_data,
                   train_data, usedTrain, usedVal, fvars>>

(* ------------------- build_network and CompositeTransform -------------- *)
\* A child transform is a bijection fwd of FlowPoints with the forward
\* log-determinant ld[x] at each point x.
FlowPoints == 0..2

Shift(k) == [x \in FlowPoints |-> (x + k) % 3]
Swap(a, b) == [x \in FlowPoints |-> IF x = a THEN b ELSE IF x = b THEN a ELSE x]

\* protein.MixedTransform: the coordinate transform
CoordinateChildren ==
    {[fwd |-> Shift(1), ld |-> [x \in FlowPoints |-> 1]],
     [fwd |-> Swap(0, 1), ld |-> [x \in FlowPoints |-> -2]]}

\* transforms.RandomPermutation: volume preserving
PermutationChildren ==
    {[fwd |-> Swap(0, 2), ld |-> [x \in FlowPoints |-> 0]],
     [fwd |-> Shift(2), ld |-> [x \in FlowPoints |-> 0]]}

\* the coupling transforms (affine or rational-quadratic spline)
CouplingChildren ==
    {[fwd |-> Swap(1, 2), ld |-> [x \in FlowPoints |-> x]],
     [fwd |-> Shift(1), ld |-> [x \in FlowPoints |-> 1 - x]],
     [fwd |-> Swap(0, 1), ld |-> [x \in FlowPoints |-> 2 * x - 1]]}

\* forward of a child: the image and the log-determinant
ChildForward(c, x) == <<c.fwd[x], c.ld[x]>>

\* inverse of a child: the pre-image and the negated forward log-determinant
ChildInverse(c, y) ==
    LET x == CHOOSE v \in FlowPoints : c.fwd[v] = y
    IN  <<x, 0 - c.ld[x]>>

\* one pass of the loop of lines 77-137: the three layers a block appends
CouplingBlocks == PermutationChildren \X CouplingChildren \X CouplingChildren

\* build_network, lines 69-139: the coordinate transform, then per coupling
\* block the permutation, the even-mask coupling and the odd-mask coupling
RECURSIVE build_network(_, _)
build_network(mixed, blocks) ==
    IF blocks = <<>> THEN <<mixed>>
    ELSE LET b == blocks[Len(blocks)]
         IN  build_network(mixed, SubSeq(blocks, 1, Len(blocks) - 1))
               \o <<b[1], b[2], b[3]>>

\* CompositeTransform.forward: the children in list order, log-determinants summed
RECURSIVE CompositeForward(_, _)
CompositeForward(ls, x) ==
    IF ls = <<>> THEN <<x, 0>>
    ELSE LET first == ChildForward(Head(ls), x)
             rest == CompositeForward(Tail(ls), first[1])
         IN  <<rest[1], first[2] + rest[2]>>

\* CompositeTransform.inverse: the children in reverse list order
RECURSIVE CompositeInverseInListOrder(_, _)
CompositeInverseInListOrder(ls, z) ==
    IF ls = <<>> THEN <<z, 0>>
    ELSE LET first == ChildInverse(Head(ls), z)
             rest == CompositeInverseInListOrder(Tail(ls), first[1])
         IN  <<rest[1], first[2] + rest[2]>>
RECURSIVE CompositeInverse(_, _)
CompositeInverse(ls, z) ==
    IF ls = <<>> THEN <<z, 0>>
    ELSE LET last == ChildInverse(ls[Len(ls)], z)
             rest == CompositeInverse(SubSeq(ls, 1, Len(ls) - 1), last[1])
         IN  <<rest[1], last[2] + rest[2]>>

\* net.forward(x) on the point at hand: first on the input, or second on
\* the latent point that inverse returned
FlowForward ==
    /\ fpc \in {"forward_first", "forward_second"}
    /\ IF fpc = "forward_first"
         THEN /\ fmid' = CompositeForward(layers, fin)[1]
              /\ ld1' = CompositeForward(layers, fin)[2]
              /\ fpc' = "inverse_second"
              /\ UNCHANGED <<fout, ld2>>
         ELSE /\ fout' = CompositeForward(layers, fmid)[1]
              /\ ld2' = CompositeForward(layers, fmid)[2]
              /\ fpc' = "done"
              /\ UNCHANGED <<fmid, ld1>>
    /\ UNCHANGED <<layers, fin, tvars>>

\* net.inverse(z) on the point at hand
FlowInverse ==
    /\ fpc \in {"inverse_first", "inverse_second"}
    /\ IF fpc = "inverse_first"
         THEN /\ fmid' = CompositeInverse(layers, fin)[1]
              /\ ld1' = CompositeInverse(layers, fin)[2]
              /\ fpc' = "forward_second"
              /\ UNCHANGED <<fout, ld2>>
         ELSE /\ fout' = CompositeInverse(layers, fmid)[1]
              /\ ld2' = CompositeInverse(layers, fmid)[2]
              /\ fpc' = "done"
              /\ UNCHANGED <<fmid, ld1>>
    /\ UNCHANGED <<layers, fin, tvars>>

(* ----------------------------- specifications ------------------------- *)
\* the file systems a run can find: any artifacts of the output name, and
\* possibly the model of another run
FileSystems ==
    {f \in [Paths -> {Absent, Old}] :
        \A p \in Paths : (p[2] \notin OutputNames /\ p[1] # "model") => f[p] = Absent}
EmptyFileSystem == [p \in Paths |-> Absent]

ExistingDirs(f) == {DirOf(p[1]) : p \in {q \in Paths : f[q] # Absent}}

\* the epoch loop under every objective setting, epoch count and log frequency
LoopArgs ==
    [train_example : BOOLEAN, train_energy : BOOLEAN, overwrite : {FALSE},
     output_name : OutputNames, load_network : {NoNetwork},
     epochs : 0..MaxEpochs, log_freq : 1..MaxLogFreq,
     fold_validation : {<<2, 1>>}, n : {2}, batch_size : {1},
     example_weight : ExampleWeights, energy_weight : EnergyWeights]

\* start-up under every set of files left by earlier runs
StartArgs ==
    [train_example : BOOLEAN, train_energy : BOOLEAN, overwrite : BOOLEAN,
     output_name : OutputNames, load_network : {NoNetwork} \cup Names,
     epochs : {1}, log_freq : {1},
     fold_validation : {<<2, 1>>}, n : {2}, batch_size : {1},
     example_weight : {2}, energy_weight : EnergyWeights]

\* the shuffle-and-split under every frame count, fold and batch size
SplitArgs ==
    [train_example : BOOLEAN, train_energy : {TRUE}, overwrite : {FALSE},
     output_name : OutputNames, load_network : {NoNetwork},
     epochs : {2}, log_freq : {1},
     fold_validation : FoldValues, n : 1..MaxFrames, batch_size : 1..MaxBatch,
     example_weight : {2}, energy_weight : EnergyWeights]

TrainInit(ArgSet, FsSet) ==
    /\ args \in ArgSet
    /\ fs0 \in FsSet
    /\ fs = fs0
    /\ dirs = ExistingDirs(fs0)
    /\ calls = {}
    /\ pc = "parse"
    /\ failedAt = ""
    /\ epoch = -1
    /\ mode = "train"
    /\ grad = "unset"
    /\ params = 0
    /\ lr_epoch = -1
    /\ rawExample = None
    /\ rawEnergy = None
    /\ example_loss = None
    /\ energy_loss = None
    /\ loss = None
    /\ oracleTrain = FALSE
    /\ ops = <<>>
    /\ events = <<>>
    /\ fixed_coords = <<>>
    /\ shuffled = <<>>
    /\ val_data = <<>>
    /\ train_data = <<>>
    /\ usedTrain = {}
    /\ usedVal = {}

FlowIdle ==
    /\ layers = <<>>
    /\ fpc = "idle"
    /\ fin = 0
    /\ fmid = 0
    /\ fout = 0
    /\ ld1 = 0
    /\ ld2 = 0

Init == TrainInit(LoopArgs, {EmptyFileSystem}) /\ FlowIdle
StartInit == TrainInit(StartArgs, FileSystems) /\ FlowIdle
SplitInit == TrainInit(SplitArgs, {EmptyFileSystem}) /\ FlowIdle

Next ==
    \/ ConfigGate
    \/ CheckOutput
    \/ DeleteRun
    \/ CreateDirs
    \/ CreateTensorboard
    \/ LoadTrajectory
    \/ SetupNetwork
    \/ SetupOptimizer
    \/ ShuffleSplit
    \/ LoopHead
    \/ ZeroGrad
    \/ ExampleLoss
    \/ EnergyLoss
    \/ Combine
    \/ Backward
    \/ OptimizerStep
    \/ SchedulerStep
    \/ LogCheck
    \/ ValidateAndLog
    \/ FatalError
    \/ SaveModel
    \/ FinalPrint
    \/ SaveTrajectories

Spec == Init /\ [][Next]_vars
StartSpec == StartInit /\ [][Next]_vars
SplitSpec == SplitInit /\ [][Next]_vars
\* the script is one thread that runs until it returns or raises
FairSpec == Init /\ [][Next]_vars /\ WF_vars(Next)

\* every network build_network can make from the children, up to MaxCoupling blocks
BlockLists == UNION {[1..k -> CouplingBlocks] : k \in 0..MaxCoupling}
FlowInit ==
    /\ TrainInit({[train_example |-> TRUE, train_energy |-> TRUE, overwrite |-> FALSE,
                   output_name |-> "a", load_network |-> NoNetwork, epochs |-> 1,
                   log_freq |-> 1, fold_validation |-> <<2, 1>>, n |-> 2,
                   batch_size |-> 1, example_weight |-> 2, energy_weight |-> 3]},
                 {EmptyFileSystem})
    /\ \E mixed \in CoordinateChildren, blocks \in BlockLists :
         layers = build_network(mixed, blocks)
    /\ fpc \in {"forward_first", "inverse_first"}
    /\ fin \in FlowPoints
    /\ fmid = 0
    /\ fout = 0
    /\ ld1 = 0
    /\ ld2 = 0

FlowNext ==
    \/ FlowForward
    \/ FlowInverse

FlowSpec == FlowInit /\ [][FlowNext]_vars

(* ------------------------------- claims -------------------------------- *)
IsPrefix(s, t) == Len(s) <= Len(t) /\ SubSeq(t, 1, Len(s)) = s

\* C1: with neither objective enabled the script stops at the configuration
\* gate with an error, and nothing has happened before it: no existence
\* check, no delete_run, no create_dirs, no metric writer, no trajectory
\* load, no network or energy oracle, no run_training; the files and
\* directories are as they were.
C1_GateBeforeAnyEffect ==
    (~args.train_example /\ ~args.train_energy) =>
        /\ pc \in {"parse", "rejected"}
        /\ pc = "rejected" => failedAt = "gate"
        /\ calls = {}
        /\ fs = fs0
        /\ dirs = ExistingDirs(fs0)

\* both objectives are disabled, the gate has rejected the run, and there
\* were files of the output name that --overwrite would have removed
C1_Witness ==
    /\ ~args.train_example /\ ~args.train_energy
    /\ pc = "rejected"
    /\ failedAt = "gate"
    /\ args.overwrite
    /\ fs0[<<"model", args.output_name>>] = Old
    /\ fs0[<<"runs", args.output_name>>] = Old

\* C2: if models/<output_name>.pkl exists and --overwrite is not given, the
\* script stops with an error before training: delete_run is not called,
\* no directory is created, no metric writer is opened, run_training is not
\* entered, and every file, the model file included, is unchanged.
C2_ExistingOutputRejected ==
    ((args.train_example \/ args.train_energy)
        /\ fs0[<<"model", args.output_name>>] # Absent /\ ~args.overwrite) =>
        /\ pc \in {"parse", "check_output", "rejected"}
        /\ pc = "rejected" => failedAt = "output_exists"
        /\ calls \subseteq {"exists"}
        /\ fs = fs0
        /\ dirs = ExistingDirs(fs0)

\* the run was rejected because the output model exists, while other
\* artifacts of the name and another run's model exist too
C2_Witness ==
    /\ pc = "rejected"
    /\ failedAt = "output_exists"
    /\ ~args.overwrite
    /\ fs[<<"model", args.output_name>>] = Old
    /\ fs[<<"training_traj", args.output_name>>] = Old
    /\ fs[<<"runs", args.output_name>>] = Old
    /\ fs[<<"model", "b">>] = Old

\* C3: in every TrainStep the example loss is computed iff the example
\* objective is enabled, the energy loss and the oracle call on training
\* samples happen iff the energy objective is enabled, and the loss handed
\* to backward is the sum of the enabled losses, each times its weight.
C3_LossIsSumOfEnabled ==
    pc = "backward" =>
        /\ (rawExample # None) <=> args.train_example
        /\ (rawEnergy # None) <=> args.train_energy
        /\ oracleTrain <=> args.train_energy
        /\ loss = Some((IF args.train_example
                          THEN args.example_weight * rawExample[1] ELSE 0)
                       + (IF args.train_energy
                            THEN args.energy_weight * rawEnergy[1] ELSE 0))

\* a TrainStep with both objectives enabled, different weights and different
\* unweighted losses, about to backpropagate
C3_Witness ==
    /\ pc = "backward"
    /\ args.train_example /\ args.train_energy
    /\ args.example_weight = 2
    /\ rawExample = Some(-1)
    /\ rawEnergy = Some(2)
    /\ loss = Some(4)
    /\ epoch = 1

\* the events of a run of E epochs with log frequency L that does not fail
RECURSIVE EpochEvents(_, _, _)
EpochEvents(e, E, L) ==
    IF e >= E THEN <<>>
    ELSE <<<<"TrainStep", e>>>>
           \o (IF e % L = 0 THEN <<<<"Validate", e>>>> ELSE <<>>)
           \o EpochEvents(e + 1, E, L)
RunEvents(E, L) == EpochEvents(0, E, L) \o <<<<"Save", E - 1>>>>

Finalizing == {"final_print", "save_traj", "done"}
Terminated == pc \in {"done", "failed", "rejected"}

\* C4: a run that does not fail does exactly E TrainSteps, epochs 0..E-1 in
\* order, with a Validate&Log directly after the TrainStep of epoch e iff
\* e mod L = 0, and saves the model once, after the last TrainStep and with
\* no TrainStep or Validate&Log after it; every run terminates.
C4_LoopSchedule ==
    /\ [](IsPrefix(events, RunEvents(args.epochs, args.log_freq)))
    /\ [](pc \in Finalizing =>
            events = RunEvents(args.epochs, args.log_freq))
    /\ <>Terminated

\* a finished run of three epochs logging every second epoch
C4_Witness ==
    /\ pc = "done"
    /\ args.epochs = 3
    /\ args.log_freq = 2
    /\ Len(events) = 6

TrainStepOrder ==
    <<"zero_grad", "loss", "backward", "optimizer_step", "scheduler_step">>

\* C5: a TrainStep zeroes the gradients, computes the loss, backpropagates,
\* steps the optimizer and steps the scheduler, in this order and each once;
\* only the optimizer step changes the transform parameters, so Validate&Log
\* and the finalizing code leave them as the last optimizer step left them.
C5_StepOrderAndSoleWriter ==
    [][/\ IsPrefix(ops', TrainStepOrder)
       /\ pc' = "log_check" => ops' = TrainStepOrder
       /\ params' # params => (pc = "opt_step" /\ pc' = "sched_step")
       /\ pc' \in {"validate", "save"} \cup Finalizing => params' = epoch' + 1]_vars

\* the run has finished after three optimizer steps and two Validate&Logs
C5_Witness ==
    /\ pc = "done"
    /\ params = 3
    /\ Len(fixed_coords) = 2
    /\ ops = <<>>

TrainStepPlaces == {"example", "energy", "backward", "opt_step"}

\* C6 as stated: after a fatal error in a TrainStep every model checkpoint
\* that an earlier run had written still exists unchanged.
C6_EveryCheckpointSurvives ==
    (pc = "failed" /\ failedAt \in TrainStepPlaces) =>
        \A name \in Names :
            fs0[<<"model", name>>] = Old => fs[<<"model", name>>] = Old

\* C6 amended: after a fatal error in a TrainStep the checkpoint of an earlier
\* run under another output name still exists unchanged, and the checkpoint
\* under this run's output name is gone: delete_run removed it at start-up.
C6_OtherCheckpointSurvives ==
    (pc = "failed" /\ failedAt \in TrainStepPlaces) =>
        \A name \in Names :
            fs0[<<"model", name>>] = Old =>
                fs[<<"model", name>>] =
                    IF name = args.output_name THEN Absent ELSE Old

\* a run with --overwrite over an existing checkpoint, beside another run's
\* checkpoint, has aborted in the optimizer step
C6_Witness ==
    /\ pc = "failed"
    /\ failedAt = "opt_step"
    /\ args.overwrite
    /\ fs0[<<"model", args.output_name>>] = Old
    /\ fs0[<<"model", "b">>] = Old
    /\ args.load_network = "b"

\* C7: forward applies the children in list order and inverse in reverse
\* order, each summing the log-determinants, so inverse undoes forward and
\* forward undoes inverse, and the two log-determinants cancel.
C7_RoundTrip ==
    /\ fpc = "inverse_second" =>
         /\ Len(layers) = 4 =>
              fmid = layers[4].fwd[layers[3].fwd[layers[2].fwd[layers[1].fwd[fin]]]]
         /\ Len(layers) = 1 => (fmid = layers[1].fwd[fin] /\ ld1 = layers[1].ld[fin])
    /\ fpc = "done" => (fout = fin /\ ld1 + ld2 = 0)

\* a round trip through a network of two coupling blocks that moved the
\* point and has a log-determinant other than 0
C7_Witness ==
    /\ fpc = "done"
    /\ Len(layers) = 7
    /\ fmid # fin
    /\ ld1 # 0
    /\ fout = fin

\* C8 as stated: the diagnostic trajectory never has more than E / L frames.
C8_AtMostEOverL ==
    Len(fixed_coords) * args.log_freq <= args.epochs

\* C8 amended: the diagnostic trajectory grows by exactly one frame per
\* Validate&Log and by nothing else, and it never has more than E / L
\* rounded up frames.
C8_TrajectoryGrowth ==
    [][/\ Len(fixed_coords') # Len(fixed_coords) =>
            /\ pc = "validate"
            /\ fixed_coords' = Append(fixed_coords, params)
       /\ (pc = "validate" /\ pc' # "failed") =>
            Len(fixed_coords') = Len(fixed_coords) + 1
       /\ Len(fixed_coords') <=
            (args.epochs + args.log_freq - 1) \div args.log_freq]_vars

\* three epochs logged every second epoch have given two frames: more than 3 / 2
C8_Witness ==
    /\ args.epochs = 3
    /\ args.log_freq = 2
    /\ Len(fixed_coords) = 2
    /\ pc = "done"

SplitMade == pc \notin {"parse", "check_output", "rejected", "delete_run",
                        "create_dirs", "writer", "load_traj", "network",
                        "setup", "split"}

C10_NothingDeletedWithoutOverwrite ==
    ~args.overwrite =>
        \A p \in Paths : fs0[p] # Absent => fs[p] # Absent

\* C11: a model file that --load-network names and that existed when the
\* script started still exists when load_network is about to read it, in
\* every accepted configuration, also when the output name is the name of
\* the loaded network.
C11_LoadedNetworkStillThere ==
    (pc = "network" /\ args.load_network # NoNetwork
        /\ fs0[<<"model", args.load_network>>] # Absent) =>
        fs[<<"model", args.load_network>>] # Absent

====
